---- MODULE Spec2Model ----
(***************************************************************************)
(* A model of the MannSahay / MannMitra relay (src/main.py): two chat      *)
(* endpoints that forward a transcript to a local Ollama server and one    *)
(* liveness probe.  One external request is followed from its arrival,     *)
(* over the single awaited backend call, to the response handed back.      *)
(*                                                                         *)
(* Python values are encoded as follows.                                   *)
(*   Optional[T]   None is <<>>, a present value x is <<x>>                *)
(*   List[Message] a sequence of records [role, content]                   *)
(*   f-string      the sequence of its pieces, in order                    *)
(*   JSON value    a record [t, v] tagged "str", "null", "obj" or "arr"    *)
(***************************************************************************)
EXTENDS Integers, Sequences, FiniteSets, TLC

VARIABLES pc, entry, request, sent, outcome, response

vars == <<pc, entry, request, sent, outcome, response>>

(* Longest prior transcript a request carries. *)
MaxHist == 2

----------------------------------------------------------------------------
(* Data model *)

None == <<>>

Some(x) == <<x>>

MANNSAHAY_PROMPT == "MANNSAHAY_PROMPT"

MANNMITRA_PROMPT == "MANNMITRA_PROMPT"

Message(role, content) == [role |-> role, content |-> content]

ChatRequest(user_message, history) ==
    [user_message |-> user_message, history |-> history]

ChatResponse(reply, new_history, error) ==
    [kind |-> "ChatResponse", reply |-> reply, new_history |-> new_history,
     error |-> error, status |-> None]

StatusResponse(status) ==
    [kind |-> "status", reply |-> None, new_history |-> None,
     error |-> None, status |-> Some(status)]

(* An exception that leaves the handler: the server answers with a generic *)
(* fault instead of a body built by the handler.                            *)
UnhandledFault ==
    [kind |-> "fault", reply |-> None, new_history |-> None,
     error |-> None, status |-> None]

NoResponse ==
    [kind |-> "none", reply |-> None, new_history |-> None,
     error |-> None, status |-> None]

(* Inputs of the external caller. *)
Roles == {"system", "user", "assistant"}

Texts == {"Hello", "Hi there"}

Messages == {Message(r, c) : r \in Roles, c \in Texts}

Histories == UNION {[1..n -> Messages] : n \in 0..MaxHist}

----------------------------------------------------------------------------
(* The backend as seen through httpx *)

TransportExceptions == {"ConnectError", "ConnectTimeout", "ReadTimeout", "ReadError"}

StatusCodes == {200, 201, 301, 404, 500}

OpenAIBody == "{\"choices\":[{\"message\":{\"content\":\"Hi there\"}}]}"

NestedBody == "{\"message\":{\"content\":\"Hi there\"}}"

FlatBody == "{\"response\":\"Hi there\"}"

FooBody == "{\"foo\":\"bar\"}"

EmptyChoicesBody == "{\"choices\":[]}"

NullContentBody == "{\"choices\":[{\"message\":{\"content\":null}}]}"

NotJsonBody == "oom"

BodyTexts == {OpenAIBody, NestedBody, FlatBody, FooBody, EmptyChoicesBody,
              NullContentBody, NotJsonBody}

NoOutcome == [kind |-> "none", exc |-> "", status_code |-> 0, text |-> ""]

Raised(exc) == [kind |-> "exception", exc |-> exc, status_code |-> 0, text |-> ""]

Returned(status_code, text) ==
    [kind |-> "response", exc |-> "", status_code |-> status_code, text |-> text]

(* JSON values *)
JStr(s) == [t |-> "str", v |-> s]

JNull == [t |-> "null", v |-> "null"]

JObj(fields) == [t |-> "obj", v |-> fields]

JArr(items) == [t |-> "arr", v |-> items]

(* Results of an evaluation that may raise. *)
Ok(v) == [ok |-> TRUE, v |-> v, exc |-> "", msg |-> ""]

Raise(exc, msg) == [ok |-> FALSE, v |-> JNull, exc |-> exc, msg |-> msg]

----------------------------------------------------------------------------
(* get_ollama_response, before the awaited call *)

OllamaMessages_DirectiveLast(system_prompt, history, new_user_message) ==
    history \o <<new_user_message, Message("system", system_prompt)>>

(* ollama_messages: the directive, the prior transcript, the new message. *)
OllamaMessages(system_prompt, history, new_user_message) ==
    (<<Message("system", system_prompt)>> \o history) \o <<new_user_message>>

OllamaRequestBody(system_prompt, history, new_user_message) ==
    [model |-> "llama3:8b",
     messages |-> OllamaMessages(system_prompt, history, new_user_message),
     stream |-> FALSE]

ClientPost_Twice(log, body) ==
    log \o <<[method |-> "POST", url |-> "/v1/chat/completions", json |-> Some(body)],
             [method |-> "POST", url |-> "/v1/chat/completions", json |-> Some(body)]>>

(* client.post(...): one request goes out on the wire. *)
ClientPost(log, body) ==
    Append(log, [method |-> "POST", url |-> "/v1/chat/completions", json |-> Some(body)])

(* client.get("/") *)
ClientGet(log) == Append(log, [method |-> "GET", url |-> "/", json |-> None])

----------------------------------------------------------------------------
(* get_ollama_response, after the awaited call *)

(* httpx: is_success is 2xx; raise_for_status raises on everything else. *)
IsSuccess(status_code) == status_code \in 200..299

(* str(e) of a transport exception. *)
ExcStr(exc) ==
    CASE exc = "ConnectError" -> "All connection attempts failed"
      [] exc = "ConnectTimeout" -> "connect timed out"
      [] exc = "ReadTimeout" -> "read timed out"
      [] OTHER -> "read error"

ChoicesOf(content) ==
    JObj([choices |-> JArr(<<JObj([message |-> JObj([content |-> content])])>>)])

(* response.json(): the parse of each body the backend may send. *)
ResponseJson(text) ==
    CASE text = OpenAIBody -> Ok(ChoicesOf(JStr("Hi there")))
      [] text = NestedBody ->
            Ok(JObj([message |-> JObj([content |-> JStr("Hi there")])]))
      [] text = FlatBody -> Ok(JObj([response |-> JStr("Hi there")]))
      [] text = FooBody -> Ok(JObj([foo |-> JStr("bar")]))
      [] text = EmptyChoicesBody -> Ok(JObj([choices |-> JArr(<<>>)]))
      [] text = NullContentBody -> Ok(ChoicesOf(JNull))
      [] OTHER -> Raise("JSONDecodeError", "Expecting value")

(* j[key] for a string key; str(e) of a KeyError is the repr of the key,  *)
(* written here without its quotes.                                      *)
GetKey(j, key) ==
    IF j.t = "obj"
    THEN IF key \in DOMAIN j.v THEN Ok(j.v[key]) ELSE Raise("KeyError", key)
    ELSE Raise("TypeError", "indices must be integers")

(* j[i] for a Python (0-based) index; no body of BodyTexts indexes a string. *)
GetIndex(j, i) ==
    IF j.t = "arr"
    THEN IF (i + 1) \in DOMAIN j.v
         THEN Ok(j.v[i + 1])
         ELSE Raise("IndexError", "list index out of range")
    ELSE IF j.t = "obj"
         THEN Raise("KeyError", ToString(i))
         ELSE Raise("TypeError", "object is not subscriptable")

BotResponseContent_Nested(data) ==
    LET m == GetKey(data, "message") IN
    IF ~m.ok THEN m ELSE GetKey(m.v, "content")

BotResponseContent_Fallback(data) ==
    LET a == GetKey(data, "choices") IN
    LET b == IF a.ok THEN GetIndex(a.v, 0) ELSE a IN
    LET c == IF b.ok THEN GetKey(b.v, "message") ELSE b IN
    LET d == IF c.ok THEN GetKey(c.v, "content") ELSE c IN
    IF d.ok THEN d ELSE Ok(JStr("str(ollama_data)"))

(* ollama_data['choices'][0]['message']['content'] *)
BotResponseContent(data) ==
    LET a == GetKey(data, "choices") IN
    IF ~a.ok THEN a ELSE
    LET b == GetIndex(a.v, 0) IN
    IF ~b.ok THEN b ELSE
    LET c == GetKey(b.v, "message") IN
    IF ~c.ok THEN c ELSE GetKey(c.v, "content")

(* Message(role="assistant", content=...): content must be a str. *)
NewBotMessage(content) ==
    IF content.t = "str"
    THEN Ok(content)
    ELSE Raise("ValidationError", "content: str type expected")

(* The try block from the completion of client.post on: the reply text it *)
(* returns with, or the exception it raises.                              *)
TryBlock(call) ==
    IF call.kind = "exception"
    THEN Raise(call.exc, ExcStr(call.exc))
    ELSE IF ~IsSuccess(call.status_code)
    THEN Raise("HTTPStatusError", "")
    ELSE LET data == ResponseJson(call.text) IN
         IF ~data.ok THEN data ELSE
         LET content == BotResponseContent(data.v) IN
         IF ~content.ok THEN content ELSE NewBotMessage(content.v)

SuccessResult_NoUserMessage(history, new_user_message, content) ==
    ChatResponse(Some(content),
                 Some(Append(history, Message("assistant", content))),
                 None)

SuccessResult(history, new_user_message, content) ==
    ChatResponse(Some(content),
                 Some(history \o <<new_user_message, Message("assistant", content)>>),
                 None)

ConnectErrorText ==
    <<"Offline AI server is not running. Please make sure Ollama is installed and running.">>

ConnectErrorResult_NoHistory(history) ==
    ChatResponse(None, None, Some(ConnectErrorText))

ConnectErrorResult(history) ==
    ChatResponse(None, Some(history), Some(ConnectErrorText))

HTTPStatusErrorResult(history, status_code, text) ==
    ChatResponse(None, Some(history),
                 Some(<<"Ollama server error: ", ToString(status_code), " - ", text>>))

ExceptionResult_EmptyHistory(history, msg) ==
    ChatResponse(None, Some(<<>>), Some(<<"An unexpected error occurred: ", msg>>))

ExceptionResult(history, msg) ==
    ChatResponse(None, Some(history), Some(<<"An unexpected error occurred: ", msg>>))

ExceptClause_CatchAllFirst(exc) == "Exception"

ExceptClause_NoCatchAll(exc) ==
    CASE exc = "ConnectError" -> "ConnectError"
      [] exc = "HTTPStatusError" -> "HTTPStatusError"
      [] OTHER -> "unhandled"

(* The first except clause of get_ollama_response that matches. *)
ExceptClause(exc) ==
    CASE exc = "ConnectError" -> "ConnectError"
      [] exc = "HTTPStatusError" -> "HTTPStatusError"
      [] OTHER -> "Exception"

(* What get_ollama_response returns once the awaited call has ended. *)
OllamaResult(history, new_user_message, call) ==
    LET r == TryBlock(call) IN
    IF r.ok
    THEN SuccessResult(history, new_user_message, r.v.v)
    ELSE LET clause == ExceptClause(r.exc) IN
         CASE clause = "ConnectError" -> ConnectErrorResult(history)
           [] clause = "HTTPStatusError" ->
                 HTTPStatusErrorResult(history, call.status_code, call.text)
           [] clause = "Exception" -> ExceptionResult(history, r.msg)
           [] OTHER -> UnhandledFault

(* The only except clause of check_ollama_status. *)
StatusExceptClause(exc) ==
    IF exc = "ConnectError" THEN "ConnectError" ELSE "unhandled"

(* What check_ollama_status returns once client.get has ended. *)
StatusResult(call) ==
    IF call.kind = "response"
    THEN StatusResponse("online")
    ELSE IF StatusExceptClause(call.exc) = "ConnectError"
         THEN StatusResponse("offline")
         ELSE UnhandledFault

----------------------------------------------------------------------------
(* The relay *)

NewUserMessage == Message("user", request.user_message)

Init ==
    /\ pc = "idle"
    /\ entry = "none"
    /\ request = ChatRequest("", <<>>)
    /\ sent = <<>>
    /\ outcome = NoOutcome
    /\ response = NoResponse

(* A chat handler up to its await: get_ollama_response builds the outbound *)
(* body and posts it.                                                      *)
GetOllamaResponse(system_prompt, history, user_message_content) ==
    /\ request' = ChatRequest(user_message_content, history)
    /\ sent' = ClientPost(<<>>, OllamaRequestBody(system_prompt, history,
                                    Message("user", user_message_content)))
    /\ outcome' = NoOutcome
    /\ response' = NoResponse

chat_mannsahay ==
    /\ pc = "idle"
    /\ pc' = "await_post"
    /\ entry' = "chat_mannsahay"
    /\ \E u \in Texts, h \in Histories : GetOllamaResponse(MANNSAHAY_PROMPT, h, u)

chat_mannmitra ==
    /\ pc = "idle"
    /\ pc' = "await_post"
    /\ entry' = "chat_mannmitra"
    /\ \E u \in Texts, h \in Histories : GetOllamaResponse(MANNMITRA_PROMPT, h, u)

(* The awaited post ends in an exception. *)
PostRaises ==
    \E exc \in TransportExceptions :
        /\ pc = "await_post"
        /\ pc' = "done"
        /\ outcome' = Raised(exc)
        /\ response' = OllamaResult(request.history, NewUserMessage, Raised(exc))
        /\ UNCHANGED <<entry, request, sent>>

(* The awaited post ends in a response of the backend. *)
PostReturns ==
    \E s \in StatusCodes, b \in BodyTexts :
        /\ pc = "await_post"
        /\ pc' = "done"
        /\ outcome' = Returned(s, b)
        /\ response' = OllamaResult(request.history, NewUserMessage, Returned(s, b))
        /\ UNCHANGED <<entry, request, sent>>

(* check_ollama_status up to its await. *)
check_ollama_status ==
    /\ pc = "idle"
    /\ pc' = "await_get"
    /\ entry' = "check_ollama_status"
    /\ request' = ChatRequest("", <<>>)
    /\ sent' = ClientGet(<<>>)
    /\ outcome' = NoOutcome
    /\ response' = NoResponse

GetRaises ==
    \E exc \in TransportExceptions :
        /\ pc = "await_get"
        /\ pc' = "done"
        /\ outcome' = Raised(exc)
        /\ response' = StatusResult(Raised(exc))
        /\ UNCHANGED <<entry, request, sent>>

GetReturns ==
    \E s \in StatusCodes, b \in BodyTexts :
        /\ pc = "await_get"
        /\ pc' = "done"
        /\ outcome' = Returned(s, b)
        /\ response' = StatusResult(Returned(s, b))
        /\ UNCHANGED <<entry, request, sent>>

(* The handler returns: the response goes to the caller and the locals of *)
(* the request are gone, the relay keeps nothing between requests.       *)
Return ==
    /\ pc = "done"
    /\ pc' = "idle"
    /\ entry' = "none"
    /\ request' = ChatRequest("", <<>>)
    /\ sent' = <<>>
    /\ outcome' = NoOutcome
    /\ response' = NoResponse

Next ==
    \/ chat_mannsahay
    \/ chat_mannmitra
    \/ PostRaises
    \/ PostReturns
    \/ check_ollama_status
    \/ GetRaises
    \/ GetReturns
    \/ Return

Spec == Init /\ [][Next]_vars

(* client is built with timeout=30.0: an awaited call cannot stay pending, *)
(* it ends in a response or in an exception.                              *)
FairSpec ==
    /\ Spec
    /\ WF_vars(PostRaises \/ PostReturns)
    /\ WF_vars(GetRaises \/ GetReturns)

----------------------------------------------------------------------------
(* Vocabulary of the properties *)

ChatEntries == {"chat_mannsahay", "chat_mannmitra"}

ChatDone == pc = "done" /\ entry \in ChatEntries

StatusDone == pc = "done" /\ entry = "check_ollama_status"

H == request.history

UserMessage == Message("user", request.user_message)

Is2xx == outcome.kind = "response" /\ outcome.status_code \in 200..299

Pieces(opt) == IF opt = None THEN {} ELSE {opt[1][i] : i \in DOMAIN opt[1]}

UnreachableLead == "Offline AI server is not running. Please make sure Ollama is installed and running."

BackendErrorLead == "Ollama server error: "

UnexpectedLead == "An unexpected error occurred: "

Lead(opt) == IF opt = None THEN "" ELSE opt[1][1]

(* Valid structured data without a text at choices[0].message.content. *)
ShapelessBodies == {NestedBody, FlatBody, FooBody, EmptyChoicesBody, NullContentBody}

----------------------------------------------------------------------------
(* C1: when the backend call succeeds with reply text r, the response has  *)
(* reply r, no error, and new_history is the prior transcript followed by  *)
(* the new user message and the assistant message carrying r.              *)
C1_SuccessAppendsTwo ==
    (ChatDone /\ TryBlock(outcome).ok) =>
        LET r == TryBlock(outcome).v.v IN
        /\ response.kind = "ChatResponse"
        /\ response.reply = Some(r)
        /\ response.error = None
        /\ response.new_history # None
        /\ LET nh == response.new_history[1] IN
           /\ Len(nh) = Len(H) + 2
           /\ \A i \in 1..Len(H) : nh[i] = H[i]
           /\ nh[Len(H) + 1] = UserMessage
           /\ nh[Len(H) + 2] = Message("assistant", r)

C1_Witness ==
    /\ ChatDone
    /\ TryBlock(outcome).ok
    /\ Len(H) = MaxHist
    /\ response.new_history # None
    /\ Len(response.new_history[1]) = MaxHist + 2

(* C2: on every failure of the backend call the response carries the prior *)
(* transcript exactly as it came in and a null reply.                      *)
C2_FailureKeepsTranscript ==
    (ChatDone /\ ~TryBlock(outcome).ok) =>
        /\ response.new_history = Some(H)
        /\ response.reply = None

C2_Witness ==
    /\ ChatDone
    /\ Is2xx
    /\ outcome.text = NotJsonBody
    /\ Len(H) = MaxHist
    /\ response.new_history = Some(H)

C5_FailureClassification ==
    /\ Cardinality({UnreachableLead, BackendErrorLead, UnexpectedLead}) = 3
    /\ ChatDone =>
          /\ outcome = Raised("ConnectError") =>
                response.error = Some(<<UnreachableLead>>)
          /\ (outcome.kind = "response" /\ ~Is2xx) =>
                /\ Lead(response.error) = BackendErrorLead
                /\ ToString(outcome.status_code) \in Pieces(response.error)
                /\ outcome.text \in Pieces(response.error)
          /\ (outcome.kind = "exception" /\ outcome.exc # "ConnectError") =>
                Lead(response.error) = UnexpectedLead
          /\ (Is2xx /\ outcome.text # OpenAIBody) =>
                Lead(response.error) = UnexpectedLead

C5_Witness ==
    /\ ChatDone
    /\ outcome = Returned(500, "oom")
    /\ "500" \in Pieces(response.error)
    /\ "oom" \in Pieces(response.error)
    /\ response.new_history = Some(H)

(* C6 as stated: a chat response has reply and new_history populated and   *)
(* error null, or error populated and both reply and new_history null.     *)
C6_ErrorAlone ==
    ChatDone =>
        \/ /\ response.reply # None
           /\ response.new_history # None
           /\ response.error = None
        \/ /\ response.error # None
           /\ response.reply = None
           /\ response.new_history = None

(* C6 amended: a chat response has reply and new_history populated and     *)
(* error null, or error populated, reply null and new_history equal to the *)
(* prior transcript.                                                       *)
C6_TwoShapes ==
    ChatDone =>
        /\ response.kind = "ChatResponse"
        /\ \/ /\ response.reply # None
              /\ response.new_history # None
              /\ response.error = None
           \/ /\ response.error # None
              /\ response.reply = None
              /\ response.new_history = Some(H)

C6_Witness ==
    /\ ChatDone
    /\ outcome = Raised("ConnectError")
    /\ response.error # None
    /\ response.reply = None
    /\ response.new_history = Some(H)
    /\ H # <<>>

(* C7: the body posted to the backend has stream false and the messages    *)
(* directive, prior transcript in order, new user message, the directive   *)
(* being the one of the endpoint invoked.                                  *)
C7_OutboundMessages ==
    (entry \in ChatEntries) =>
        LET D == IF entry = "chat_mannsahay" THEN MANNSAHAY_PROMPT ELSE MANNMITRA_PROMPT
            body == sent[1].json[1]
            msgs == body.messages
        IN /\ MANNSAHAY_PROMPT # MANNMITRA_PROMPT
           /\ body.stream = FALSE
           /\ Len(msgs) = Len(H) + 2
           /\ msgs[1] = Message("system", D)
           /\ \A i \in 1..Len(H) : msgs[i + 1] = H[i]
           /\ msgs[Len(H) + 2] = UserMessage

C7_Witness ==
    /\ pc = "await_post"
    /\ entry = "chat_mannmitra"
    /\ Len(H) = MaxHist
    /\ H[1] = H[MaxHist]
    /\ Len(sent[1].json[1].messages) = MaxHist + 2

(* C8: the probe answers "offline" on every exception of its GET and       *)
(* "online" on every response.                                             *)
C8_ProbeAlwaysAnswers ==
    StatusDone =>
        /\ outcome.kind = "exception" => response.status = Some("offline")
        /\ outcome.kind = "response" => response.status = Some("online")

(* C9: every anticipated failure of a chat request ends in a response body *)
(* with error populated, never in a fault, and a pending backend call      *)
(* always ends in a response to the caller.                                *)
C9_FailureIsResponse ==
    (ChatDone /\ (~Is2xx \/ outcome.text # OpenAIBody)) =>
        /\ response.kind = "ChatResponse"
        /\ response.error # None

C9_FailuresAnswered ==
    /\ []C9_FailureIsResponse
    /\ (pc = "await_post") ~> (pc = "done" /\ response.kind = "ChatResponse")

C9_Witness ==
    /\ ChatDone
    /\ outcome = Raised("ReadTimeout")
    /\ response.kind = "ChatResponse"
    /\ Lead(response.error) = UnexpectedLead

(* C10: a chat request puts exactly one POST on the wire, whatever the     *)
(* call ends in, and a response exists only once that call has ended.      *)
C10_SinglePost ==
    /\ (entry \in ChatEntries) =>
          /\ Len(sent) = 1
          /\ sent[1].method = "POST"
    /\ (pc = "await_post") => (response = NoResponse /\ outcome = NoOutcome)
    /\ (response # NoResponse) => (pc = "done" /\ outcome # NoOutcome)

C10_Witness ==
    /\ ChatDone
    /\ outcome = Returned(500, "oom")
    /\ Len(sent) = 1
    /\ response.error # None

====
